---- MODULE Spec2Model ----
(***************************************************************************)
(* Exam seating arrangement generator (src/seating_arrangement.py).        *)
(*                                                                         *)
(* The model follows one press of the "Generate Seating Arrangement"       *)
(* button: run_app's guards, then generate_arrangement step by step        *)
(* (expansion of the roster into one row per subject token, schedule       *)
(* lookup and Both-split, one step per (date, session) slot, the final     *)
(* return), and run_app's exception handler.  A second specification,      *)
(* RoomSpec, follows the room widgets of run_app and their callbacks       *)
(* sync_ordered_rooms and add_room_callback.                               *)
(*                                                                         *)
(* Texts are sequences of symbols: "," and " " are the comma and the       *)
(* blank, every other symbol stands for a run of ordinary characters.      *)
(* Student identifiers are strings of digits, written as sequences of      *)
(* the digits' values (run_app reads every column with dtype=str).         *)
(***************************************************************************)
EXTENDS Integers, Sequences, FiniteSets, TLC

\* Largest number of roster records drawn for a run.
MaxStudents == 2
\* Largest capacity a room is given.
MaxCapacity == 2

----------------------------------------------------------------------------
(* Input universe                                                          *)

Bio == <<"Bio">>
Chem == <<"Chem">>

\* A spreadsheet cell: missing (NaN after read_excel/read_csv) or a text.
NaN == [missing |-> TRUE, text |-> <<>>]
Cell(t) == [missing |-> FALSE, text |-> t]

\* Core_Subjects cells: missing, the blank text, and " Chem ,,Bio".
CoreCells == {NaN, Cell(<<>>), Cell(<<" ", "Chem", " ", ",", ",", "Bio">>)}
\* Elective_Subjects cells: blank, or "Bio".
ElectiveCells == {Cell(<<>>), Cell(<<"Bio">>)}

\* Identifiers "9", "10", "2", ... in roster order; names and classes likewise.
IdList == << <<9>>, <<1, 0>>, <<2>>, <<1, 1>> >>
NameList == <<"Ama", "Kofi", "Esi", "Yaw">>
ClassList == <<"3A", "3B", "3A", "3C">>

Dates == {1, 2}
SessionChoices == {"Morning", "Afternoon", "Both"}
SubjectOptions == {Bio, Chem}
RoomList == <<"3A", "3B">>

\* A validation list that leaves out the name column.
required_columns_without_name == {"IndexNumber", "Core_Subjects", "Elective_Subjects", "Class"}

required_columns == {"IndexNumber", "Full_Name", "Core_Subjects", "Elective_Subjects", "Class"}

Rosters ==
  UNION { [1..n -> CoreCells \X ElectiveCells] : n \in 1..MaxStudents }

DataFrame(cells) ==
  [i \in 1..Len(cells) |->
     [IndexNumber |-> IdList[i], Full_Name |-> NameList[i], Class |-> ClassList[i],
      Core_Subjects |-> cells[i][1], Elective_Subjects |-> cells[i][2]]]

\* The schedule built by run_app: selected subject -> {date, session}.
Schedules ==
  UNION { [S -> [date : Dates, session : SessionChoices]] : S \in SUBSET SubjectOptions }

\* The ordered room -> capacity mapping built by run_app from ordered_rooms.
RoomConfigs ==
  UNION { [1..n -> 1..MaxCapacity] : n \in 0..Len(RoomList) }

RoomCapacities(caps) ==
  [i \in 1..Len(caps) |-> [room |-> RoomList[i], capacity |-> caps[i]]]

----------------------------------------------------------------------------
(* Enrollment expander                                                     *)

\* str(cell): a missing cell prints as "nan".
Str(cell) == IF cell.missing THEN <<"nan">> ELSE cell.text

\* text.split(','): the pieces between commas, empty pieces included.
RECURSIVE Split(_)
Split(t) ==
  IF t = <<>> THEN << <<>> >>
  ELSE LET rest == Split(Tail(t)) IN
       IF Head(t) = "," THEN << <<>> >> \o rest
       ELSE << <<Head(t)>> \o Head(rest) >> \o Tail(rest)

RECURSIVE LStrip(_)
LStrip(p) == IF p # <<>> /\ Head(p) = " " THEN LStrip(Tail(p)) ELSE p

RECURSIVE RStrip(_)
RStrip(p) ==
  IF p # <<>> /\ p[Len(p)] = " " THEN RStrip(SubSeq(p, 1, Len(p) - 1)) ELSE p

\* piece.strip()
Strip(p) == RStrip(LStrip(p))

\* [s.strip() for s in core_subjects + elective_subjects if s.strip()]
all_subjects_list(row) ==
  LET pieces == Split(Str(row.Core_Subjects)) \o Split(Str(row.Elective_Subjects))
      stripped == [i \in 1..Len(pieces) |-> Strip(pieces[i])]
  IN SelectSeq(stripped, LAMBDA s : s # <<>>)

RowsOfStudent(row) ==
  LET subjects == all_subjects_list(row) IN
  [i \in 1..Len(subjects) |->
     [IndexNumber |-> row.IndexNumber, Full_Name |-> row.Full_Name,
      Class |-> row.Class, Subject |-> subjects[i]]]

RECURSIVE StudentSubjects(_)
StudentSubjects(frame) ==
  IF frame = <<>> THEN <<>>
  ELSE RowsOfStudent(Head(frame)) \o StudentSubjects(Tail(frame))

----------------------------------------------------------------------------
(* Session resolver                                                        *)

\* long_df[long_df['Subject'].isin(selected_subjects)]
FilterSelected(rows, details) ==
  SelectSeq(rows, LAMBDA r : r.Subject \in DOMAIN details)

\* long_df['Date'] = ...map(date); long_df['Session'] = ...map(session)
AttachSchedule(rows, details) ==
  [i \in 1..Len(rows) |->
     [IndexNumber |-> rows[i].IndexNumber, Full_Name |-> rows[i].Full_Name,
      Class |-> rows[i].Class, Subject |-> rows[i].Subject,
      Date |-> details[rows[i].Subject].date,
      Session |-> details[rows[i].Subject].session]]

WithSession(rows, s) == [i \in 1..Len(rows) |-> [rows[i] EXCEPT !.Session = s]]

\* A split that keeps only the Morning copy of the Both rows.
SplitBothMorningOnly(rows) ==
  LET both_session_df == SelectSeq(rows, LAMBDA r : r.Session = "Both") IN
  IF both_session_df = <<>> THEN rows
  ELSE SelectSeq(rows, LAMBDA r : r.Session # "Both")
         \o WithSession(both_session_df, "Morning")

\* The Both rows are replaced by a Morning copy and an Afternoon copy, which
\* are concatenated after the rows of the other sessions.
SplitBoth(rows) ==
  LET both_session_df == SelectSeq(rows, LAMBDA r : r.Session = "Both") IN
  IF both_session_df = <<>> THEN rows
  ELSE SelectSeq(rows, LAMBDA r : r.Session # "Both")
         \o WithSession(both_session_df, "Morning")
         \o WithSession(both_session_df, "Afternoon")

\* sorted(values): the members of a set of dates in ascending order.
RECURSIVE Sorted(_)
Sorted(S) ==
  IF S = {} THEN <<>>
  ELSE LET m == CHOOSE x \in S : \A y \in S : x <= y IN <<m>> \o Sorted(S \ {m})

UniqueDates(rows) == Sorted({rows[i].Date : i \in 1..Len(rows)})

\* for session in ['Morning', 'Afternoon']
SessionOrder == <<"Morning", "Afternoon">>

----------------------------------------------------------------------------
(* Seat pool builder                                                       *)

\* room_names[room] = f"Room {i+1} ({room})"
RoomName(i, room) == <<"Room", i, room>>

Seat(room, n) == ("Room" :> room) @@ ("Seat No" :> n)

\* A room's seats with the numbers counted down from the capacity.
SeatsOfRoomDescending(i, r) ==
  IF r.capacity < 1 THEN <<>>
  ELSE [n \in 1..r.capacity |-> Seat(RoomName(i, r.room), r.capacity + 1 - n)]

\* range(1, capacity + 1) is empty when capacity < 1.
SeatsOfRoom(i, r) ==
  IF r.capacity < 1 THEN <<>>
  ELSE [n \in 1..r.capacity |-> Seat(RoomName(i, r.room), n)]

RECURSIVE SeatsFrom(_, _)
SeatsFrom(caps, i) ==
  IF i > Len(caps) THEN <<>>
  ELSE SeatsOfRoom(i, caps[i]) \o SeatsFrom(caps, i + 1)

AllSeats(caps) == SeatsFrom(caps, 1)

----------------------------------------------------------------------------
(* Allocator                                                               *)

Range(f) == {f[i] : i \in DOMAIN f}

SubjectsOf(rows) == {rows[i].Subject : i \in 1..Len(rows)}

SubjectCount(rows, subject) ==
  Cardinality({i \in 1..Len(rows) : rows[i].Subject = subject})

\* session_df['Subject'].value_counts().index.tolist(): the distinct subjects
\* by descending count.  pandas sorts the counts with numpy's default
\* (unstable) sort and documents no order among equal counts, so every order
\* of a tie is a possible outcome.
ValueCountsOrders(rows) ==
  LET S == SubjectsOf(rows) IN
  { p \in [1..Cardinality(S) -> S] :
      /\ Range(p) = S
      /\ \A i, j \in DOMAIN p :
           i < j => SubjectCount(rows, p[i]) >= SubjectCount(rows, p[j]) }

\* Python's < on str: by code point, a proper prefix first.
RECURSIVE StrLess(_, _)
StrLess(a, b) ==
  IF b = <<>> THEN FALSE
  ELSE IF a = <<>> THEN TRUE
  ELSE IF Head(a) # Head(b) THEN Head(a) < Head(b)
  ELSE StrLess(Tail(a), Tail(b))

RECURSIVE InsertByIndexNumber(_, _)
InsertByIndexNumber(row, sorted) ==
  IF sorted = <<>> THEN <<row>>
  ELSE IF StrLess(row.IndexNumber, Head(sorted).IndexNumber)
       THEN <<row>> \o sorted
       ELSE <<Head(sorted)>> \o InsertByIndexNumber(row, Tail(sorted))

\* rows.sort_values('IndexNumber'): ascending in the column's own order,
\* which for the str column is Python's string order.  Rows of one subject
\* with the same identifier are equal rows, so the order among them that
\* the unstable sort picks does not show.
RECURSIVE SortValues(_)
SortValues(rows) ==
  IF rows = <<>> THEN <<>>
  ELSE InsertByIndexNumber(rows[Len(rows)], SortValues(SubSeq(rows, 1, Len(rows) - 1)))

SubjectDf(rows, subject) ==
  SortValues(SelectSeq(rows, LAMBDA r : r.Subject = subject))

\* The rows of a slot in the order the two nested loops visit them.
RECURSIVE Traversal(_, _, _)
Traversal(rows, subjects, i) ==
  IF i > Len(subjects) THEN <<>>
  ELSE SubjectDf(rows, subjects[i]) \o Traversal(rows, subjects, i + 1)

\* The labels of a row of long_df (lines 270-275 and 290-291).
LongColumns == {"IndexNumber", "Full_Name", "Class", "Subject", "Date", "Session"}

\* The label under which the loop body reads the student's name (line 341).
StudentNameLabel == "Full Name"

\* The labels the loop body reads from a student row (lines 337-344).
StudentLookups == {"Date", "IndexNumber", StudentNameLabel, "Class", "Subject", "Session"}

\* student[label] raises KeyError when the row has no such label.
HasLabels(student, labels) == labels \subseteq DOMAIN student

ArrangementRow(student, seat) ==
  ("Date" :> student["Date"]) @@ ("Room" :> seat["Room"])
    @@ ("Seat No" :> seat["Seat No"]) @@ ("Index Number" :> student["IndexNumber"])
    @@ ("Full Name" :> student[StudentNameLabel]) @@ ("Class" :> student["Class"])
    @@ ("Subject" :> student["Subject"]) @@ ("Session" :> student["Session"])

\* State of the seating loops: the rows built, the next seat, the messages
\* shown, and whether an exception left the function.
LoopStart == [rows |-> <<>>, seat_index |-> 0, errors |-> <<>>, raised |-> FALSE, broke |-> FALSE]

\* for _, student in subject_df.iterrows(): ... (lines 333-349)
RECURSIVE SeatStudents(_, _, _)
SeatStudents(students, all_seats, acc) ==
  IF students = <<>> \/ acc.raised \/ acc.broke THEN acc
  ELSE IF acc.seat_index < Len(all_seats)
       THEN IF HasLabels(Head(students), StudentLookups)
            THEN SeatStudents(Tail(students), all_seats,
                   [acc EXCEPT !.rows = Append(@, ArrangementRow(Head(students),
                                                   all_seats[acc.seat_index + 1])),
                               !.seat_index = @ + 1])
            ELSE [acc EXCEPT !.raised = TRUE]
       ELSE [acc EXCEPT !.errors = Append(@, "Ran out of seats during arrangement"),
                        !.broke = TRUE]

\* for i, subject in enumerate(subjects_in_session): ... (lines 331-353)
RECURSIVE SeatSubjects(_, _, _, _, _)
SeatSubjects(rows, subjects, i, all_seats, acc) ==
  IF i > Len(subjects) THEN acc
  ELSE LET inner == SeatStudents(SubjectDf(rows, subjects[i]), all_seats,
                                 [acc EXCEPT !.broke = FALSE])
       IN IF inner.raised THEN inner
          ELSE IF inner.seat_index >= Len(all_seats) /\ i < Len(subjects)
               THEN [inner EXCEPT !.errors = Append(@, "Not enough seats for all subjects")]
               ELSE SeatSubjects(rows, subjects, i + 1, all_seats, inner)

----------------------------------------------------------------------------
(* Statistics aggregator and workbook                                      *)

SlotRows(table, d, s) ==
  SelectSeq(table, LAMBDA r : r["Date"] = d /\ r["Session"] = s)

\* stats[f"{date} {session}"] for every slot with a row in the table.
Stats(table, dates, caps) ==
  LET keys == {k \in Range(dates) \X Range(SessionOrder) : SlotRows(table, k[1], k[2]) # <<>>}
      total(i) == caps[i].capacity
      RECURSIVE Sum(_)
      Sum(i) == IF i > Len(caps) THEN 0 ELSE total(i) + Sum(i + 1)
  IN [k \in keys |->
        LET session_df == SlotRows(table, k[1], k[2]) IN
        [total_students |-> Len(session_df),
         total_seats |-> Sum(1),
         rooms_used |-> Cardinality({session_df[i]["Room"] : i \in 1..Len(session_df)})]]

\* One sheet per date of the table, holding that date's rows in table order.
Workbook(table) ==
  [d \in {table[i]["Date"] : i \in 1..Len(table)} |->
     SelectSeq(table, LAMBDA r : r["Date"] = d)]

----------------------------------------------------------------------------
(* State                                                                   *)

VARIABLES
  df_columns,          \* the columns of the uploaded roster
  df,                  \* its records
  subject_details,     \* subject -> [date, session]
  room_capacities,     \* ordered room -> capacity
  pc,                  \* where the run stands
  long_df,             \* student_subjects, then long_df
  unique_dates,
  slot,                \* position in the (date, session) iteration
  traversal,           \* rows of the slot last seated, in loop order
  arrangement_df,
  messages,            \* what st.error / st.warning have shown
  result,              \* what generate_arrangement returned
  session_state        \* st.session_state: the room widgets' keys

vars == <<df_columns, df, subject_details, room_capacities, pc, long_df, unique_dates,
          slot, traversal, arrangement_df, messages, result, session_state>>

inputs == <<df_columns, df, subject_details, room_capacities, session_state>>

Message(level, text, args) == [level |-> level, text |-> text, args |-> args]

Pending == [kind |-> "pending"]
\* return None, None, None
NoneTriple == [kind |-> "none"]
\* return wb, arrangement_df, stats
Triple(wb, table, stats) == [kind |-> "triple", wb |-> wb, arrangement_df |-> table, stats |-> stats]

\* st.session_state with the four keys of the room widgets.
SessionState(all_classes, selected_rooms, ordered_rooms, new_room_input) ==
  [all_classes |-> all_classes, selected_rooms |-> selected_rooms,
   ordered_rooms |-> ordered_rooms, new_room_input |-> new_room_input]

\* for room in st.session_state.ordered_rooms: room_capacities[room] = ...
RoomLabels(caps) == [i \in 1..Len(caps) |-> caps[i].room]

\* An upload either has every required column or lacks Full_Name.
ColumnSets == {required_columns \cup {"Gender"}, required_columns \ {"Full_Name"}}

Init ==
  /\ df_columns \in ColumnSets
  /\ \E cells \in Rosters :
       /\ df = DataFrame(cells)
       /\ required_columns \subseteq df_columns \/ Len(cells) = 1
  /\ subject_details \in Schedules
  /\ \E caps \in RoomConfigs : room_capacities = RoomCapacities(caps)
  /\ pc = "idle"
  /\ long_df = <<>>
  /\ unique_dates = <<>>
  /\ slot = 1
  /\ traversal = <<>>
  /\ arrangement_df = <<>>
  /\ messages = <<>>
  /\ result = Pending
  /\ session_state = SessionState(RoomList, RoomLabels(room_capacities), RoomLabels(room_capacities), <<>>)

----------------------------------------------------------------------------
(* Operations                                                              *)

\* A button handler that asks for a subject but not for a room.
GenerateWithoutRoomCheck ==
  /\ pc = "idle"
  /\ IF DOMAIN subject_details = {}
     THEN /\ messages' = Append(messages, Message("warning", "Please select at least one subject for the session.", <<>>))
          /\ pc' = "rejected"
     ELSE /\ messages' = messages
          /\ pc' = "expand"
  /\ UNCHANGED <<inputs, long_df, unique_dates, slot, traversal, arrangement_df, result>>

\* The button handler of run_app: it calls generate_arrangement only with at
\* least one ordered room and one selected subject.
Generate ==
  /\ pc = "idle"
  /\ IF room_capacities = <<>>
     THEN /\ messages' = Append(messages, Message("warning", "Please select at least one class to be used as a room.", <<>>))
          /\ pc' = "rejected"
     ELSE IF DOMAIN subject_details = {}
     THEN /\ messages' = Append(messages, Message("warning", "Please select at least one subject for the session.", <<>>))
          /\ pc' = "rejected"
     ELSE /\ messages' = messages
          /\ pc' = "expand"
  /\ UNCHANGED <<inputs, long_df, unique_dates, slot, traversal, arrangement_df, result>>

\* generate_arrangement up to the expansion of the roster.
Expand ==
  /\ pc = "expand"
  /\ IF ~(required_columns \subseteq df_columns)
     THEN /\ messages' = Append(messages, Message("error", "The uploaded file is missing required columns", required_columns \ df_columns))
          /\ result' = NoneTriple
          /\ pc' = "returned"
          /\ long_df' = long_df
     ELSE LET student_subjects == StudentSubjects(df) IN
          IF student_subjects = <<>>
          THEN /\ messages' = Append(messages, Message("warning", "No subjects could be processed from the uploaded file.", <<>>))
               /\ result' = NoneTriple
               /\ pc' = "returned"
               /\ long_df' = long_df
          ELSE /\ long_df' = student_subjects
               /\ pc' = "resolve"
               /\ UNCHANGED <<messages, result>>
  /\ UNCHANGED <<inputs, unique_dates, slot, traversal, arrangement_df>>

\* The schedule filter, the date and session columns, the Both split.
Resolve ==
  /\ pc = "resolve"
  /\ LET selected == FilterSelected(long_df, subject_details) IN
     IF selected = <<>>
     THEN /\ messages' = Append(messages, Message("warning", "No students found for the selected subjects.", <<>>))
          /\ result' = NoneTriple
          /\ pc' = "returned"
          /\ long_df' = selected
          /\ unique_dates' = unique_dates
     ELSE LET resolved == SplitBoth(AttachSchedule(selected, subject_details)) IN
          /\ long_df' = resolved
          /\ unique_dates' = UniqueDates(resolved)
          /\ pc' = "slots"
          /\ UNCHANGED <<messages, result>>
  /\ UNCHANGED <<inputs, slot, traversal, arrangement_df>>

SlotDate(i) == unique_dates[(i + 1) \div 2]
SlotSession(i) == SessionOrder[((i - 1) % 2) + 1]
SlotCount == 2 * Len(unique_dates)

SessionDf(rows, d, s) == SelectSeq(rows, LAMBDA r : r.Date = d /\ r.Session = s)

\* len(session_df) > len(all_seats)
NotEnoughSeats(session_df, all_seats) == Len(session_df) > Len(all_seats)

NotEnoughSeatsMessage(s, d, session_df, all_seats) ==
  Message("error", "Not enough seats", <<s, d, Len(session_df), Len(all_seats)>>)

LoopMessages(errors, s, d) ==
  [i \in 1..Len(errors) |-> Message("error", errors[i], <<s, d>>)]

\* ProcessSlot without the up-front capacity check and with student rows that
\* carry the label the loop reads: the loop's own exhaustion branch is then
\* the only guard, and it keeps the rows seated before the pool ran out.
WithFullName(rows) ==
  [i \in 1..Len(rows) |-> rows[i] @@ ("Full Name" :> rows[i].Full_Name)]

ProcessSlotUnchecked ==
  /\ pc = "slots"
  /\ slot <= SlotCount
  /\ LET exam_date == SlotDate(slot)
         session == SlotSession(slot)
         session_df == WithFullName(SessionDf(long_df, exam_date, session))
         all_seats == AllSeats(room_capacities)
     IN IF session_df = <<>>
        THEN /\ slot' = slot + 1
             /\ UNCHANGED <<pc, traversal, arrangement_df, messages>>
        ELSE \E subjects_in_session \in ValueCountsOrders(session_df) :
               LET done == SeatSubjects(session_df, subjects_in_session, 1, all_seats, LoopStart) IN
               /\ traversal' = Traversal(session_df, subjects_in_session, 1)
               /\ messages' = messages \o LoopMessages(done.errors, session, exam_date)
               /\ arrangement_df' = arrangement_df \o done.rows
               /\ slot' = slot + 1
               /\ pc' = pc
  /\ UNCHANGED <<inputs, long_df, unique_dates, result>>

\* One pass of the body of the date and session loops.
ProcessSlot ==
  /\ pc = "slots"
  /\ slot <= SlotCount
  /\ LET exam_date == SlotDate(slot)
         session == SlotSession(slot)
         session_df == SessionDf(long_df, exam_date, session)
         all_seats == AllSeats(room_capacities)
     IN IF session_df = <<>>
        THEN /\ slot' = slot + 1
             /\ UNCHANGED <<pc, traversal, arrangement_df, messages>>
        ELSE IF NotEnoughSeats(session_df, all_seats)
        THEN /\ messages' = Append(messages, NotEnoughSeatsMessage(session, exam_date, session_df, all_seats))
             /\ slot' = slot + 1
             /\ UNCHANGED <<pc, traversal, arrangement_df>>
        ELSE \E subjects_in_session \in ValueCountsOrders(session_df) :
               LET done == SeatSubjects(session_df, subjects_in_session, 1, all_seats, LoopStart) IN
               /\ traversal' = Traversal(session_df, subjects_in_session, 1)
               /\ messages' = messages \o LoopMessages(done.errors, session, exam_date)
               /\ IF done.raised
                  THEN /\ pc' = "raised"
                       /\ UNCHANGED <<slot, arrangement_df>>
                  ELSE /\ arrangement_df' = arrangement_df \o done.rows
                       /\ slot' = slot + 1
                       /\ pc' = pc
  /\ UNCHANGED <<inputs, long_df, unique_dates, result>>

\* The end of generate_arrangement without the test for an empty table.
FinishWithoutEmptyCheck ==
  /\ pc = "slots"
  /\ slot > SlotCount
  /\ messages' = messages
  /\ result' = Triple(Workbook(arrangement_df), arrangement_df,
                      Stats(arrangement_df, unique_dates, room_capacities))
  /\ pc' = "returned"
  /\ UNCHANGED <<inputs, long_df, unique_dates, slot, traversal, arrangement_df>>

\* After the loops: nothing seated returns the None triple, otherwise the
\* statistics and the workbook are built and returned with the table.
Finish ==
  /\ pc = "slots"
  /\ slot > SlotCount
  /\ IF arrangement_df = <<>>
     THEN /\ messages' = Append(messages, Message("warning", "No seating arrangement could be generated.", <<>>))
          /\ result' = NoneTriple
     ELSE /\ messages' = messages
          /\ result' = Triple(Workbook(arrangement_df), arrangement_df,
                              Stats(arrangement_df, unique_dates, room_capacities))
  /\ pc' = "returned"
  /\ UNCHANGED <<inputs, long_df, unique_dates, slot, traversal, arrangement_df>>

\* run_app's except clause: the exception becomes an error message.
HandleException ==
  /\ pc = "raised"
  /\ messages' = Append(messages, Message("error", "An error occurred while processing the file", <<"KeyError", "Full Name">>))
  /\ pc' = "handled"
  /\ UNCHANGED <<inputs, long_df, unique_dates, slot, traversal, arrangement_df, result>>

Next ==
  \/ Generate
  \/ Expand
  \/ Resolve
  \/ ProcessSlot
  \/ Finish
  \/ HandleException

Spec == Init /\ [][Next]_vars

----------------------------------------------------------------------------
(* Room selection (run_app's room widgets and their callbacks)             *)

\* The room labels of the input universe, in the order of Python's string
\* comparison, and the texts typed into "Add a new room".
RoomNames == <<"2Z", "3A", "3B", "3C">>
RoomInputs == {<<>>, <<" ">>, <<"3A">>, <<"2Z">>, <<" ", "3C", " ">>}

RoomRank(room) == CHOOSE n \in 1..Len(RoomNames) : RoomNames[n] = room

\* list.sort() / sorted(): insertion by string comparison.
RECURSIVE InsertRoom(_, _)
InsertRoom(room, sorted) ==
  IF sorted = <<>> THEN <<room>>
  ELSE IF RoomRank(room) < RoomRank(Head(sorted)) THEN <<room>> \o sorted
  ELSE <<Head(sorted)>> \o InsertRoom(room, Tail(sorted))

RECURSIVE SortRooms(_)
SortRooms(rooms) ==
  IF rooms = <<>> THEN <<>> ELSE InsertRoom(Head(rooms), SortRooms(Tail(rooms)))

\* df['Class'].unique(): the classes of the roster in order of first appearance.
RECURSIVE Unique(_, _)
Unique(frame, seen) ==
  IF frame = <<>> THEN seen
  ELSE Unique(Tail(frame),
              IF Head(frame).Class \in Range(seen) THEN seen ELSE Append(seen, Head(frame).Class))

\* for room in selected: if room not in new_ordered: new_ordered.append(room)
RECURSIVE AppendMissing(_, _)
AppendMissing(new_ordered, selected) ==
  IF selected = <<>> THEN new_ordered
  ELSE AppendMissing(IF Head(selected) \in Range(new_ordered) THEN new_ordered
                     ELSE Append(new_ordered, Head(selected)),
                     Tail(selected))

\* A synchronisation that keeps the deselected rooms in the order.
sync_keeps_deselected(state) ==
  IF "selected_rooms" \notin DOMAIN state THEN state
  ELSE IF "ordered_rooms" \notin DOMAIN state
       THEN state @@ ("ordered_rooms" :> state.selected_rooms)
       ELSE [state EXCEPT !.ordered_rooms = AppendMissing(state.ordered_rooms, state.selected_rooms)]

sync_ordered_rooms(state) ==
  IF "selected_rooms" \notin DOMAIN state THEN state
  ELSE IF "ordered_rooms" \notin DOMAIN state
       THEN state @@ ("ordered_rooms" :> state.selected_rooms)
       ELSE LET ordered == state.ordered_rooms
                selected == state.selected_rooms
                new_ordered == SelectSeq(ordered, LAMBDA room : room \in Range(selected))
            IN [state EXCEPT !.ordered_rooms = AppendMissing(new_ordered, selected)]

add_room_callback(state) ==
  LET new_room == Strip(state.new_room_input) IN
  IF new_room # <<>> /\ new_room[1] \notin Range(state.all_classes)
  THEN LET appended == [state EXCEPT !.all_classes = SortRooms(Append(@, new_room[1]))]
           selected == IF "selected_rooms" \in DOMAIN appended
                       THEN [appended EXCEPT !.selected_rooms = Append(@, new_room[1])]
                       ELSE appended
       IN sync_ordered_rooms([selected EXCEPT !.new_room_input = <<>>])
  ELSE state

\* The permutations of a list: what dragging can turn the room order into.
Reorderings(rooms) ==
  {p \in [1..Len(rooms) -> Range(rooms)] : \A x \in Range(rooms) : \E i \in 1..Len(rooms) : p[i] = x}

\* The widgets leave the variables of the run alone.
run == <<df_columns, df, subject_details, room_capacities, pc, long_df, unique_dates,
         slot, traversal, arrangement_df, messages, result>>

\* A roster with a Class column has been uploaded: its classes, sorted, are
\* the rooms on offer, all selected and ordered; no run has been asked for.
RoomInit ==
  /\ df_columns = required_columns \cup {"Gender"}
  /\ \E n \in 1..MaxStudents : df = DataFrame([i \in 1..n |-> <<Cell(<<>>), Cell(<<"Bio">>)>>])
  /\ subject_details = <<>>
  /\ room_capacities = <<>>
  /\ pc = "idle"
  /\ long_df = <<>>
  /\ unique_dates = <<>>
  /\ slot = 1
  /\ traversal = <<>>
  /\ arrangement_df = <<>>
  /\ messages = <<>>
  /\ result = Pending
  /\ LET all_classes == SortRooms(Unique(df, <<>>))
     IN session_state = SessionState(all_classes, all_classes, all_classes, <<>>)

\* st.text_input(..., key="new_room_input")
TypeNewRoom ==
  /\ \E text \in RoomInputs : session_state' = [session_state EXCEPT !.new_room_input = text]
  /\ UNCHANGED run

\* st.button("Add Room", on_click=add_room_callback)
AddRoom ==
  /\ session_state' = add_room_callback(session_state)
  /\ UNCHANGED run

\* The multiselect gains an option, placed last, and calls its on_change.
SelectRoom ==
  /\ \E room \in Range(session_state.all_classes) \ Range(session_state.selected_rooms) :
       session_state' = sync_ordered_rooms([session_state EXCEPT !.selected_rooms = Append(@, room)])
  /\ UNCHANGED run

\* The multiselect loses an option and calls its on_change.
DeselectRoom ==
  /\ \E room \in Range(session_state.selected_rooms) :
       session_state' = sync_ordered_rooms(
         [session_state EXCEPT !.selected_rooms = SelectSeq(@, LAMBDA r : r # room)])
  /\ UNCHANGED run

\* sort_items: the rooms dragged into another order.
ReorderRooms ==
  /\ session_state.ordered_rooms # <<>>
  /\ \E sorted_rooms \in Reorderings(session_state.ordered_rooms) :
       /\ sorted_rooms # session_state.ordered_rooms
       /\ session_state' = [session_state EXCEPT !.ordered_rooms = sorted_rooms]
  /\ UNCHANGED run

RoomNext ==
  \/ TypeNewRoom
  \/ AddRoom
  \/ SelectRoom
  \/ DeselectRoom
  \/ ReorderRooms

RoomSpec == RoomInit /\ [][RoomNext]_vars

----------------------------------------------------------------------------
(* Properties                                                              *)

\* The (date, session) slots of the run, once the schedule is resolved.
Slots == Range(unique_dates) \X Range(SessionOrder)

\* Enrollment rows scheduled into a slot, and the seats of a pool.
Demand(k) == Len(SessionDf(long_df, k[1], k[2]))
Capacity == Len(AllSeats(room_capacities))

\* The slot's rows of the Assignment table.
Assigned(k) == SlotRows(arrangement_df, k[1], k[2])

\* generate_arrangement has returned, or its exception has been handled.
RunEnded == pc \in {"returned", "handled"}

\* The capacity error of a slot has been shown.
Reported(k) ==
  \E i \in 1..Len(messages) :
    /\ messages[i].text = "Not enough seats"
    /\ messages[i].args = <<k[2], k[1], Demand(k), Capacity>>

Positions(table, subject) == {i \in 1..Len(table) : table[i]["Subject"] = subject}

\* C1: no two rows of the Assignment table with the same date and session
\* have the same room and seat number.  (No run gets as far as a row of the
\* table, see C1_TableHasRows.)
C1_UniqueSeats ==
  \A i, j \in 1..Len(arrangement_df) :
    (/\ i # j
     /\ arrangement_df[i]["Date"] = arrangement_df[j]["Date"]
     /\ arrangement_df[i]["Session"] = arrangement_df[j]["Session"])
      => <<arrangement_df[i]["Room"], arrangement_df[i]["Seat No"]>>
           # <<arrangement_df[j]["Room"], arrangement_df[j]["Seat No"]>>

\* The table holds two rows of one slot.
C1_TableHasRows ==
  \E k \in Slots : Len(Assigned(k)) >= 2

\* C2: every slot has, at every moment and so at the end of the run, either
\* one Assignment per enrollment row scheduled into it or no Assignment at
\* all; a slot never contributes a non-empty strict subset of its rows.
C2_AllOrNothing ==
  \A k \in Slots : Len(Assigned(k)) \in {0, Demand(k)}

\* A run has ended in which a slot with more rows than seats was rejected
\* and has no Assignment.
C2_Witness ==
  /\ RunEnded
  /\ \E k \in Slots : Demand(k) > Capacity /\ Reported(k) /\ Assigned(k) = <<>>

PairBag(rows, id) ==
  [p \in {<<rows[i][id], rows[i]["Subject"]>> : i \in 1..Len(rows)} |->
     Cardinality({i \in 1..Len(rows) : <<rows[i][id], rows[i]["Subject"]>> = p})]

\* C3: when the run has ended, a slot with at most as many enrollment rows
\* as seats has Assignments whose multiset of (student identifier, subject)
\* pairs equals that of the enrollment rows scheduled into the slot.
C3_MultisetPreserved ==
  RunEnded =>
    \A k \in Slots :
      (Demand(k) > 0 /\ Demand(k) <= Capacity) =>
        PairBag(Assigned(k), "Index Number") = PairBag(SessionDf(long_df, k[1], k[2]), "IndexNumber")

\* C4: when the run has ended, a slot whose demand equals the seat count is
\* seated completely with no capacity error, and a slot whose demand is the
\* seat count plus one has no Assignment and a reported shortfall of 1.
C4_Boundary ==
  RunEnded =>
    \A k \in Slots :
      /\ (Demand(k) > 0 /\ Demand(k) = Capacity) =>
           (Len(Assigned(k)) = Demand(k) /\ ~Reported(k))
      /\ Demand(k) = Capacity + 1 =>
           (Assigned(k) = <<>> /\ Reported(k))

\* A slot has been processed to an outcome: seated completely, or rejected
\* with its capacity error.
Processed(k) ==
  IF Demand(k) > Capacity THEN Reported(k) /\ Assigned(k) = <<>>
  ELSE Len(Assigned(k)) = Demand(k)

\* C5: when the run has ended and some slot failed for lack of seats, every
\* other slot has still been processed to its own outcome.
C5_OtherSlotsProcessed ==
  RunEnded =>
    \A f \in Slots :
      (Demand(f) > Capacity /\ Reported(f)) =>
        \A k \in Slots \ {f} : Processed(k)

\* C6: when the run has ended, every slot with more enrollment rows than
\* seats has its capacity error (date, session, required, available) among
\* the diagnostics of the run.
C6_EveryShortfallReported ==
  RunEnded =>
    \A k \in Slots : Demand(k) > Capacity => Reported(k)

\* C8: when the run has ended, in a slot with at most as many rows as seats,
\* a subject with strictly more rows than another has all its rows seated,
\* as has the other, and each of its seats precedes each seat of the other.
C8_PopularFirst ==
  RunEnded =>
    \A k \in Slots :
      Demand(k) <= Capacity =>
        LET rows == SessionDf(long_df, k[1], k[2])
            table == Assigned(k)
        IN \A x, y \in SubjectsOf(rows) :
             SubjectCount(rows, x) > SubjectCount(rows, y) =>
               /\ Cardinality(Positions(table, x)) = SubjectCount(rows, x)
               /\ Cardinality(Positions(table, y)) = SubjectCount(rows, y)
               /\ \A i \in Positions(table, x), j \in Positions(table, y) : i < j

\* Lexical order of the subject names of the input universe.
LexRank(subject) == IF subject = Bio THEN 1 ELSE IF subject = Chem THEN 2 ELSE 3

\* C9: in the order in which a slot's rows are visited for seating, of two
\* subjects with the same number of rows the lexically smaller comes first.
C9_TieByName ==
  \A i, j \in 1..Len(traversal) :
    LET x == traversal[i].Subject
        y == traversal[j].Subject
    IN (/\ SubjectCount(traversal, x) = SubjectCount(traversal, y)
        /\ LexRank(x) < LexRank(y)) => i < j

\* The number a string of digits denotes.
RECURSIVE Numeric(_)
Numeric(digits) ==
  IF digits = <<>> THEN 0
  ELSE 10 * Numeric(SubSeq(digits, 1, Len(digits) - 1)) + digits[Len(digits)]

\* C10: in the order in which a slot's rows are visited for seating, the
\* rows of one subject are in ascending numeric order of identifier, so
\* "9" comes before "10".
C10_NumericIdOrder ==
  \A i, j \in 1..Len(traversal) :
    (i < j /\ traversal[i].Subject = traversal[j].Subject) =>
      Numeric(traversal[i].IndexNumber) <= Numeric(traversal[j].IndexNumber)

\* The (identifier, subject) pairs of a sequence of rows, in order.
Pairs(rows, id) == [i \in 1..Len(rows) |-> <<rows[i][id], rows[i]["Subject"]>>]

\* C11: when the run has ended, a slot with D rows, D at most the number of
\* seats, has D Assignments; they are the slot's rows in loop order (subjects
\* by descending count, identifiers ascending inside a subject) and the i-th
\* of them holds the i-th seat of the pool.
C11_IthPairIthSeat ==
  RunEnded =>
    \A k \in Slots :
      (Demand(k) > 0 /\ Demand(k) <= Capacity) =>
        LET rows == SessionDf(long_df, k[1], k[2])
            table == Assigned(k)
        IN /\ Len(table) = Demand(k)
           /\ \A i \in 1..Len(table) :
                <<table[i]["Room"], table[i]["Seat No"]>>
                  = <<AllSeats(room_capacities)[i]["Room"], AllSeats(room_capacities)[i]["Seat No"]>>
           /\ \E order \in ValueCountsOrders(rows) :
                Pairs(table, "Index Number") = Pairs(Traversal(rows, order, 1), "IndexNumber")

\* C12: in every slot the positions of one subject's rows inside the slot's
\* Assignments are consecutive, so the subject's seats form one contiguous
\* block of the pool.
C12_SubjectBlocks ==
  \A k \in Slots :
    LET table == Assigned(k)
    IN \A subject \in SubjectsOf(table) :
         \A i, j \in Positions(table, subject) :
           \A m \in i..j : table[m]["Subject"] = subject

\* The enrollment rows retained by the schedule filter, before any session is
\* attached to them.
Retained == FilterSelected(StudentSubjects(df), subject_details)

\* The schedule has been resolved onto the retained rows.
Resolved == unique_dates # <<>>

\* The number of rows of one student, subject, date and session.
RowCount(rows, id, subject, date, session) ==
  Cardinality({i \in 1..Len(rows) :
                 /\ rows[i].IndexNumber = id
                 /\ rows[i].Subject = subject
                 /\ rows[i].Date = date
                 /\ rows[i].Session = session})

RetainedCount(id, subject) ==
  Cardinality({i \in 1..Len(Retained) :
                 Retained[i].IndexNumber = id /\ Retained[i].Subject = subject})

BothRows == {i \in 1..Len(Retained) : subject_details[Retained[i].Subject].session = "Both"}

\* C13: once the schedule is resolved, the N retained rows of a student in a
\* Both subject have become N Morning rows and N Afternoon rows on the
\* subject's date, the rows of any other subject are there once each in the
\* scheduled session, no row has the session Both, and there are no further
\* rows.
C13_BothSplit ==
  Resolved =>
    /\ \A i \in 1..Len(long_df) : long_df[i].Session \in {"Morning", "Afternoon"}
    /\ Len(long_df) = Len(Retained) + Cardinality(BothRows)
    /\ \A i \in 1..Len(Retained) :
         LET id == Retained[i].IndexNumber
             subject == Retained[i].Subject
             date == subject_details[subject].date
             session == subject_details[subject].session
             N == RetainedCount(id, subject)
         IN IF session = "Both"
            THEN /\ RowCount(long_df, id, subject, date, "Morning") = N
                 /\ RowCount(long_df, id, subject, date, "Afternoon") = N
            ELSE RowCount(long_df, id, subject, date, session) = N

\* A resolved run in which a student has two retained rows of a Both subject
\* and there is a retained row of a subject with a single session.
C13_Witness ==
  /\ Resolved
  /\ \E i \in BothRows : RetainedCount(Retained[i].IndexNumber, Retained[i].Subject) = 2
  /\ \E i \in 1..Len(Retained) : i \notin BothRows

\* C14: when the run has ended, every slot with at most as many rows as the
\* full pool has seats is seated from the first seat of the full pool onward,
\* whatever the other slots have taken; in particular two such slots both hold
\* the pool's first seat.
C14_FreshPool ==
  RunEnded =>
    \A k \in Slots :
      (Demand(k) > 0 /\ Demand(k) <= Capacity) =>
        {<<Assigned(k)[i]["Room"], Assigned(k)[i]["Seat No"]>> : i \in 1..Len(Assigned(k))}
          = {<<AllSeats(room_capacities)[i]["Room"], AllSeats(room_capacities)[i]["Seat No"]>> :
               i \in 1..Demand(k)}

RECURSIVE SumOfCapacities(_, _)
SumOfCapacities(caps, i) ==
  IF i > Len(caps) THEN 0 ELSE caps[i].capacity + SumOfCapacities(caps, i + 1)

\* C15: the pool built from the room configuration has as many seats as the
\* capacities add up to; its seats come room by room in configuration order
\* and by ascending seat number inside a room, so no (room, seat) pair occurs
\* twice; and the seat numbers of a room are exactly 1..capacity.
C15_PoolOrder ==
  LET pool == AllSeats(room_capacities) IN
  /\ Len(pool) = SumOfCapacities(room_capacities, 1)
  /\ \A i, j \in 1..Len(pool) :
       i < j => \/ pool[i]["Room"][2] < pool[j]["Room"][2]
                \/ /\ pool[i]["Room"] = pool[j]["Room"]
                   /\ pool[i]["Seat No"] < pool[j]["Seat No"]
  /\ \A r \in 1..Len(room_capacities) :
       {pool[i]["Seat No"] : i \in {j \in 1..Len(pool) :
            pool[j]["Room"] = RoomName(r, room_capacities[r].room)}}
         = 1..room_capacities[r].capacity
  /\ \A i \in 1..Len(pool) :
       \E r \in 1..Len(room_capacities) : pool[i]["Room"] = RoomName(r, room_capacities[r].room)

\* A slot has been measured against a pool of two rooms of two seats each.
C15_Witness ==
  /\ Len(room_capacities) = 2
  /\ \A r \in 1..2 : room_capacities[r].capacity = 2
  /\ \E k \in Slots : Reported(k)

C17_StopsBeforeExpansion ==
  (\/ ~({"IndexNumber", "Full_Name", "Core_Subjects", "Elective_Subjects", "Class"} \subseteq df_columns)
   \/ DOMAIN subject_details = {}) =>
    /\ long_df = <<>>
    /\ unique_dates = <<>>
    /\ slot = 1
    /\ traversal = <<>>
    /\ arrangement_df = <<>>
    /\ result \in {Pending, NoneTriple}
    /\ pc \in {"idle", "rejected", "expand", "returned"}

\* generate_arrangement has returned three None for a roster without the
\* Full_Name column whose student has a scheduled subject.
C17_Witness ==
  /\ "Full_Name" \notin df_columns
  /\ FilterSelected(StudentSubjects(df), subject_details) # <<>>
  /\ pc = "returned"
  /\ result = NoneTriple
  /\ \E i \in 1..Len(messages) : messages[i].level = "error"

\* The schedule filter has run on the expanded rows.
Filtered ==
  \/ pc \in {"slots", "raised", "handled"}
  \/ pc = "returned" /\ required_columns \subseteq df_columns /\ StudentSubjects(df) # <<>>

\* The number of expanded rows whose subject is not a key of the schedule.
Unscheduled == Len(StudentSubjects(df)) - Len(Retained)

\* C18: once the schedule filter has run, no row of an unscheduled subject is
\* among the rows to seat or the Assignments, and when rows were dropped
\* there is a message whose argument is their number.
C18_UnscheduledCounted ==
  Filtered =>
    /\ \A i \in 1..Len(long_df) : long_df[i].Subject \in DOMAIN subject_details
    /\ \A i \in 1..Len(arrangement_df) : arrangement_df[i]["Subject"] \in DOMAIN subject_details
    /\ Unscheduled > 0 =>
         \E i \in 1..Len(messages) : messages[i].args = <<Unscheduled>>

\* The non-empty trimmed comma-separated tokens of a cell's text; a missing
\* cell has no text.
TextTokens(cell) ==
  IF cell.missing THEN <<>>
  ELSE LET pieces == Split(cell.text)
           trimmed == [i \in 1..Len(pieces) |-> Strip(pieces[i])]
       IN SelectSeq(trimmed, LAMBDA s : s # <<>>)

Occurrences(seq, x) == Cardinality({i \in 1..Len(seq) : seq[i] = x})

\* The rows of one student and subject among a sequence of rows.
RowsOf(rows, idLabel, id, subject) ==
  {i \in 1..Len(rows) : rows[i][idLabel] = id /\ rows[i]["Subject"] = subject}

\* The roster has been expanded and the rows are not yet filtered.
Expanded == pc = "resolve"

\* C19 (expansion): after the expansion a student has, for every subject, as
\* many rows as the subject occurs among the tokens of the student's core text
\* and elective text together, so twice when it is named in both.
C19_RowPerToken ==
  Expanded =>
    \A s \in 1..Len(df) :
      LET tokens == TextTokens(df[s].Core_Subjects) \o TextTokens(df[s].Elective_Subjects) IN
      \A subject \in Range(tokens) \cup SubjectsOf(long_df) :
        Cardinality(RowsOf(long_df, "IndexNumber", df[s].IndexNumber, subject))
          = Occurrences(tokens, subject)

\* C19 (seats): when the run has ended, in a slot with at most as many rows as
\* seats every row of a student and subject, a repeated one included, has an
\* Assignment of its own on a seat of its own.
C19_SeatPerRow ==
  RunEnded =>
    \A k \in Slots :
      (Demand(k) > 0 /\ Demand(k) <= Capacity) =>
        LET rows == SessionDf(long_df, k[1], k[2])
            table == Assigned(k)
        IN \A r \in 1..Len(rows) :
             LET mine == RowsOf(table, "Index Number", rows[r].IndexNumber, rows[r].Subject) IN
             /\ Cardinality(mine) = Cardinality(RowsOf(rows, "IndexNumber", rows[r].IndexNumber, rows[r].Subject))
             /\ Cardinality({<<table[i]["Room"], table[i]["Seat No"]>> : i \in mine}) = Cardinality(mine)

\* C19: one row per token of the two texts, and one seat per row.
C19_RowAndSeatPerToken == C19_RowPerToken /\ C19_SeatPerRow

\* A field that is missing or holds nothing but blanks.
Blank(cell) == cell.missing \/ Strip(cell.text) = <<>>

StudentRows(rows, id) == {i \in 1..Len(rows) : rows[i].IndexNumber = id}

\* C20: after the expansion no row has the subject "nan" or the empty string,
\* and a student whose core field is missing or blank has only the rows of
\* the elective tokens, one whose elective field is missing or blank only the
\* rows of the core tokens.
C20_NoRowFromMissingField ==
  Expanded =>
    /\ \A i \in 1..Len(long_df) : long_df[i].Subject \notin {<<"nan">>, <<>>}
    /\ \A s \in 1..Len(df) :
         /\ Blank(df[s].Core_Subjects) =>
              Cardinality(StudentRows(long_df, df[s].IndexNumber)) = Len(TextTokens(df[s].Elective_Subjects))
         /\ Blank(df[s].Elective_Subjects) =>
              Cardinality(StudentRows(long_df, df[s].IndexNumber)) = Len(TextTokens(df[s].Core_Subjects))

\* generate_arrangement has returned a workbook, a table and statistics.
Returned == result \notin {Pending, NoneTriple}

RoomsOf(table) == {table[i]["Room"] : i \in 1..Len(table)}

\* C21: in a returned result every slot with an Assignment has a statistics
\* entry whose total_students is the number of the slot's Assignments, whose
\* total_seats is the sum of all configured capacities and whose rooms_used
\* is the number of distinct rooms among the slot's Assignments.
C21_StatsOfSlot ==
  Returned =>
    \A k \in Slots :
      Assigned(k) # <<>> =>
        /\ k \in DOMAIN result.stats
        /\ result.stats[k].total_students = Len(Assigned(k))
        /\ result.stats[k].total_seats = SumOfCapacities(room_capacities, 1)
        /\ result.stats[k].rooms_used = Cardinality(RoomsOf(Assigned(k)))

\* An Assignment row carries the identifier, name, class and subject of an
\* enrollment row.
Carries(assignment, enrollment) ==
  /\ assignment["Index Number"] = enrollment.IndexNumber
  /\ assignment["Full Name"] = enrollment.Full_Name
  /\ assignment["Class"] = enrollment.Class
  /\ assignment["Subject"] = enrollment.Subject

\* C22: every Assignment row carries the IndexNumber, Full_Name and Class of a
\* roster record and one of that record's subject tokens, unchanged; and when
\* the run has ended, every enrollment row of a slot with at most as many rows
\* as seats has an Assignment row that carries its four values.
C22_FieldsCarried ==
  /\ \A i \in 1..Len(arrangement_df) :
       \E s \in 1..Len(df) :
         /\ arrangement_df[i]["Index Number"] = df[s].IndexNumber
         /\ arrangement_df[i]["Full Name"] = df[s].Full_Name
         /\ arrangement_df[i]["Class"] = df[s].Class
         /\ arrangement_df[i]["Subject"]
              \in Range(TextTokens(df[s].Core_Subjects) \o TextTokens(df[s].Elective_Subjects))
  /\ RunEnded =>
       \A k \in Slots :
         (Demand(k) > 0 /\ Demand(k) <= Capacity) =>
           LET rows == SessionDf(long_df, k[1], k[2]) IN
           \A r \in 1..Len(rows) :
             \E i \in 1..Len(Assigned(k)) : Carries(Assigned(k)[i], rows[r])

\* The roster has every required column, the schedule has a subject and
\* there is a room.
ValidInputs ==
  /\ required_columns \subseteq df_columns
  /\ DOMAIN subject_details # {}
  /\ room_capacities # <<>>

\* C23: a run with all required columns, a scheduled subject and a room never
\* leaves generate_arrangement through an exception; no slot ever holds some
\* but not all of its rows; and when the function has returned after the
\* slot loop, every slot has been seated completely or turned down with its
\* capacity error.
C23_RunsToResult ==
  ValidInputs =>
    /\ pc \notin {"raised", "handled"}
    /\ \A k \in Slots : Len(Assigned(k)) \in {0, Demand(k)}
    /\ (pc = "returned" /\ Resolved) => \A k \in Slots : Processed(k)

SessionRank(session) == CHOOSE n \in 1..Len(SessionOrder) : SessionOrder[n] = session

\* The position of an Assignment row's seat in the pool.
PoolPosition(row) ==
  CHOOSE n \in 1..Capacity :
    /\ AllSeats(room_capacities)[n]["Room"] = row["Room"]
    /\ AllSeats(room_capacities)[n]["Seat No"] = row["Seat No"]

\* (date, session, position) of one comes before that of the other.
Before(d1, s1, p1, d2, s2, p2) ==
  \/ d1 < d2
  \/ d1 = d2 /\ SessionRank(s1) < SessionRank(s2)
  \/ d1 = d2 /\ s1 = s2 /\ p1 < p2

\* The capacity errors shown so far, in the order they were shown.
CapacityErrors == SelectSeq(messages, LAMBDA m : m.text = "Not enough seats")

\* C25: the slots are taken by ascending date and Morning before Afternoon,
\* so the capacity errors come in that order, and the Assignment table is
\* sorted by date, then session, then position of the seat in the pool.
C25_TableSorted ==
  /\ \A i, j \in 1..Len(CapacityErrors) :
       i < j => Before(CapacityErrors[i].args[2], CapacityErrors[i].args[1], 0,
                       CapacityErrors[j].args[2], CapacityErrors[j].args[1], 0)
  /\ \A i, j \in 1..Len(arrangement_df) :
       i < j => Before(arrangement_df[i]["Date"], arrangement_df[i]["Session"], PoolPosition(arrangement_df[i]),
                       arrangement_df[j]["Date"], arrangement_df[j]["Session"], PoolPosition(arrangement_df[j]))

\* The messages of the two exhaustion branches inside the seating loops.
ExhaustionTexts == {"Ran out of seats during arrangement", "Not enough seats for all subjects"}

\* C26: no message of an in-loop exhaustion branch is ever shown, and when
\* the run has ended every slot that passed the up-front check has as many
\* Assignments as enrollment rows.
C26_CheckedSlotSeatsAll ==
  /\ \A i \in 1..Len(messages) : messages[i].text \notin ExhaustionTexts
  /\ RunEnded =>
       \A k \in Slots : Demand(k) <= Capacity => Len(Assigned(k)) = Demand(k)

\* The number of seats of the first n rooms.
RECURSIVE SeatsOfFirst(_)
SeatsOfFirst(n) == IF n = 0 THEN 0 ELSE room_capacities[n].capacity + SeatsOfFirst(n - 1)

\* The rows of a table seated in the room at position r of the configuration.
InRoom(table, r) ==
  {i \in 1..Len(table) : table[i]["Room"] = RoomName(r, room_capacities[r].room)}

\* C27: in every slot a room holds an Assignment only if every room before
\* it in the configuration holds as many Assignments as it has seats; and in a
\* returned result rooms_used of a slot is the smallest k for which the first
\* k rooms have at least as many seats as the slot has Assignments.
C27_RoomsFilledInOrder ==
  /\ \A k \in Slots :
       \A r \in 1..Len(room_capacities) :
         InRoom(Assigned(k), r) # {} =>
           \A q \in 1..(r - 1) :
             Cardinality(InRoom(Assigned(k), q)) = room_capacities[q].capacity
  /\ Returned =>
       \A k \in DOMAIN result.stats :
         LET n == result.stats[k].rooms_used IN
         /\ SeatsOfFirst(n) >= Len(Assigned(k))
         /\ \A m \in 0..(n - 1) : SeatsOfFirst(m) < Len(Assigned(k))

\* C28: the statistics of a returned result have an entry for exactly the
\* slots with at least one Assignment, a slot turned down for lack of seats or
\* without rows has none, and every entry has total_students between 1 and
\* total_seats and rooms_used between 1 and the number of configured rooms.
C28_StatsEntries ==
  Returned =>
    /\ DOMAIN result.stats = {k \in Slots : Assigned(k) # <<>>}
    /\ \A k \in Slots :
         (Demand(k) = 0 \/ Demand(k) > Capacity) => k \notin DOMAIN result.stats
    /\ \A k \in DOMAIN result.stats :
         /\ 1 <= result.stats[k].total_students
         /\ result.stats[k].total_students <= result.stats[k].total_seats
         /\ 1 <= result.stats[k].rooms_used
         /\ result.stats[k].rooms_used <= Len(room_capacities)

\* Every slot of the resolved schedule is without rows or has more rows than
\* the pool has seats.
EverySlotFails ==
  Resolved /\ \A k \in Slots : Demand(k) = 0 \/ Demand(k) > Capacity

\* C29: with the required columns present, a run whose roster yields no
\* subject token, or whose tokens match no scheduled subject, or whose slots
\* all fail the capacity check, never has an Assignment row, never leaves
\* generate_arrangement through an exception, and returns three None.
C29_NothingReturned ==
  (/\ required_columns \subseteq df_columns
   /\ \/ StudentSubjects(df) = <<>>
      \/ Retained = <<>>
      \/ EverySlotFails) =>
    /\ arrangement_df = <<>>
    /\ pc \notin {"raised", "handled"}
    /\ result \in {Pending, NoneTriple}
    /\ pc = "returned" => result = NoneTriple

\* generate_arrangement has returned three None after two slots with rows
\* were both turned down for lack of seats.
C29_Witness ==
  /\ pc = "returned"
  /\ result = NoneTriple
  /\ EverySlotFails
  /\ Cardinality({k \in Slots : Reported(k)}) >= 2

\* The members of a list that belong to a set, in the order of the list.
Keep(rooms, S) == SelectSeq(rooms, LAMBDA room : room \in S)

NoRepeat(rooms) == \A i, j \in 1..Len(rooms) : rooms[i] = rooms[j] => i = j

\* The ordered rooms are exactly the selected rooms, each once, and a further
\* call of sync_ordered_rooms changes nothing.
OrderedIsSelected ==
  /\ Range(session_state.ordered_rooms) = Range(session_state.selected_rooms)
  /\ NoRepeat(session_state.ordered_rooms)
  /\ sync_ordered_rooms(session_state) = session_state
  /\ sync_ordered_rooms(sync_ordered_rooms(session_state)) = sync_ordered_rooms(session_state)

\* A step that changes the selection keeps the still selected rooms in their
\* relative order, drops the others, and puts the new ones last in selection
\* order.
SelectionStep ==
  LET old == session_state.ordered_rooms
      new == session_state'.ordered_rooms
      selected == session_state'.selected_rooms
      added == Range(selected) \ Range(old)
  IN session_state'.selected_rooms # session_state.selected_rooms =>
       /\ Keep(new, Range(old)) = Keep(old, Range(selected))
       /\ Keep(new, added) = Keep(selected, added)
       /\ \A i, j \in 1..Len(new) : (new[i] \notin added /\ new[j] \in added) => i < j

\* C30: after any sequence of selections, deselections, additions and
\* reorderings the ordered room list holds exactly the selected rooms, each
\* once, and calling sync_ordered_rooms again leaves it as it is; every change
\* of the selection keeps the relative order of the rooms that stay, removes
\* the deselected ones and appends the newly selected ones in selection order.
C30_OrderedRoomsSynced == []OrderedIsSelected /\ [][SelectionStep]_vars

\* A room was deselected and another added: "2Z" sorts first among the rooms
\* on offer and stands last in the order, "3A" is on offer but not ordered.
C30_Witness ==
  /\ session_state.all_classes = <<"2Z", "3A", "3B">>
  /\ session_state.selected_rooms = <<"3B", "2Z">>
  /\ session_state.ordered_rooms = <<"3B", "2Z">>
  /\ session_state.new_room_input = <<>>

====
